---- MODULE Spec2Model ----
(***************************************************************************)
(* Image-App: the three request wrappers of the Gemini service module      *)
(* (generateImage, editImage, getPosturePrompts) and the App component     *)
(* that calls them.                                                        *)
(*                                                                         *)
(* JavaScript strings are sequences of chunks (a chunk is a TLA+ string),  *)
(* so that trim, split, startsWith, template literals and JSON.parse are   *)
(* computed on their text.  Optional values are tagged records.            *)
(***************************************************************************)
EXTENDS Bags, FiniteSets, Integers, Sequences

\* ------------------------------------------------------------------ bounds
\* Length of generatedImages in a remote response.
MaxImages == 1
\* Length of candidates[0].content.parts in a remote response.
MaxParts == 2
\* Length, in tokens, of the text of a remote response.
MaxTextLen == 3
\* FileReader reads outstanding at one time.
MaxPendingReads == 2

VARIABLES
    apiKey,              \* process.env.API_KEY; "" when not set
    calls,               \* bag of the invocations of the service functions
    mounted,             \* App: the mount effect has run
    activeTab,
    prompt, imageUrl, isLoading, error,
    uploadedImage, uploadedImageType, editedImageUrl, editPrompt, isEditing, editError,
    posturePrompts, isPromptsLoading, promptsError,
    reads                \* bag of the files whose FileReader read is outstanding

generatorVars == <<prompt, imageUrl, isLoading, error>>
editorVars == <<uploadedImage, uploadedImageType, editedImageUrl, editPrompt, isEditing, editError, reads>>
promptsVars == <<posturePrompts, isPromptsLoading, promptsError>>
appVars == <<mounted, activeTab, generatorVars, editorVars, promptsVars>>
vars == <<apiKey, calls, appVars>>

\* ------------------------------------------------------------ JS values
Undefined == [tag |-> "undefined"]
Null == [tag |-> "null"]
Str(s) == [tag |-> "string", s |-> s]
Arr(items) == [tag |-> "array", items |-> items]

\* !v for a value that is a string, null or undefined.
Falsy(v) == IF v.tag = "string" THEN v.s = <<>> ELSE TRUE

\* ${v} in a template literal.
Interpolate(v) == IF v.tag = "string" THEN v.s ELSE <<v.tag>>

\* A block's completion: a returned value or a thrown Error with its message.
Return(v) == [threw |-> FALSE, value |-> v, error |-> ""]
Throw(message) == [threw |-> TRUE, value |-> Undefined, error |-> message]

\* All sequences over S of length at most n.
SeqsUpTo(S, n) == UNION {[1..k -> S] : k \in 0..n}

RECURSIVE TrimStart(_)
TrimStart(s) == IF s # <<>> /\ Head(s) = " " THEN TrimStart(Tail(s)) ELSE s

RECURSIVE TrimEnd(_)
TrimEnd(s) == IF s # <<>> /\ s[Len(s)] = " " THEN TrimEnd(SubSeq(s, 1, Len(s) - 1)) ELSE s

\* String.prototype.trim
Trim(s) == TrimEnd(TrimStart(s))

\* --------------------------------------------------------------- JSON.parse
\* The object literals a response text is made of, as single tokens.
TokFull == "{\"title\":\"T\",\"prompt\":\"P\"}"
TokNoPrompt == "{\"title\":\"T\"}"
JsonTokens == {"[", "]", " ", TokFull, TokNoPrompt}

PromptObject(title, body) == [tag |-> "object", title |-> title, prompt |-> body]

ObjectOf(tok) ==
    IF tok = TokFull THEN PromptObject(Str(<<"T">>), Str(<<"P">>))
    ELSE PromptObject(Str(<<"T">>), Undefined)

ParseFail == [ok |-> FALSE, value |-> Undefined, rest |-> <<>>]
ParseOk(v, rest) == [ok |-> TRUE, value |-> v, rest |-> rest]

RECURSIVE ParseValue(_), ParseElements(_, _)
ParseValue(s) ==
    LET t == TrimStart(s) IN
    IF t = <<>> THEN ParseFail
    ELSE IF Head(t) \in {TokFull, TokNoPrompt} THEN ParseOk(ObjectOf(Head(t)), Tail(t))
    ELSE IF Head(t) = "["
         THEN LET u == TrimStart(Tail(t)) IN
              IF u # <<>> /\ Head(u) = "]" THEN ParseOk(Arr(<<>>), Tail(u))
              ELSE ParseElements(u, <<>>)
    ELSE ParseFail

ParseElements(s, acc) ==
    LET v == ParseValue(s) IN
    IF ~v.ok THEN ParseFail
    ELSE LET u == TrimStart(v.rest) IN
         IF u = <<>> THEN ParseFail
         ELSE IF Head(u) = "]" THEN ParseOk(Arr(Append(acc, v.value)), Tail(u))
         ELSE IF Head(u) = "," THEN ParseElements(Tail(u), Append(acc, v.value))
         ELSE ParseFail

JSONParse(s) ==
    LET v == ParseValue(s) IN
    IF v.ok /\ TrimStart(v.rest) = <<>> THEN Return(v.value) ELSE Throw("SyntaxError")

\* ------------------------------------------------------------ the service
ApiKeyNotSet == "API_KEY environment variable not set"
NoImageGenerated == "No image was generated. The response may have been blocked."
GenerateFailed == "Failed to generate image. Please check the prompt or try again later."
NoEditedImage == "No edited image was generated. The response may have been blocked."
EditFailed == "Failed to edit image. Please check the prompt or try again later."
PromptFetchFailed == "Failed to fetch posture prompt ideas."

ApiKeys == {"", "secret"}

getAiClientUnchecked(key) == Return([tag |-> "client", apiKey |-> key])

getAiClient(key) ==
    IF key = "" THEN Throw(ApiKeyNotSet)
    ELSE Return([tag |-> "client", apiKey |-> key])

\* What the remote service can answer.
ErrorDetails == {"network", "quota"}
Rejected(detail) == [settled |-> "rejected", error |-> detail, value |-> Undefined]
Fulfilled(response) == [settled |-> "fulfilled", error |-> "", value |-> response]

ImageBytes == {"b1", "b2"}
GeneratedImages ==
    {[image |-> Undefined]} \cup {[image |-> [tag |-> "image", imageBytes |-> Str(<<b>>)]] : b \in ImageBytes}
GenerateImagesSettlements ==
    {Rejected(d) : d \in ErrorDetails}
    \cup {Fulfilled([generatedImages |-> Undefined])}
    \cup {Fulfilled([generatedImages |-> Arr(s)]) : s \in SeqsUpTo(GeneratedImages, MaxImages)}

Png == Str(<<"image/", "png">>)
Jpeg == Str(<<"image/", "jpeg">>)
TextPart == [text |-> Str(<<"ok">>), inlineData |-> Undefined]
InlinePart(mimeType, data) ==
    [text |-> Undefined, inlineData |-> [tag |-> "blob", mimeType |-> mimeType, data |-> data]]
Parts == {TextPart, InlinePart(Png, Str(<<"b1">>)), InlinePart(Jpeg, Str(<<"b2">>))}
EditSettlements ==
    {Rejected(d) : d \in ErrorDetails}
    \cup {Fulfilled([candidates |-> Undefined])}
    \cup {Fulfilled([candidates |-> Arr(<<[content |-> [parts |-> s]]>>)]) : s \in SeqsUpTo(Parts, MaxParts)}

PromptsSettlements ==
    {Rejected(d) : d \in ErrorDetails}
    \cup {Fulfilled([text |-> Undefined])}
    \cup {Fulfilled([text |-> Str(s)]) : s \in SeqsUpTo(JsonTokens, MaxTextLen)}

\* `data:${mimeType};base64,${data}`
DataUrl(mimeType, data) == Str(<<"data:">> \o Interpolate(mimeType) \o <<";base64", ",">> \o Interpolate(data))

\* An invocation: what it was called with, where it stands, what its caller got.
Call(op, args, pc, remoteCalls, response, completion, logged) ==
    [op |-> op, args |-> args, pc |-> pc, remoteCalls |-> remoteCalls, response |-> response,
     outcome |-> IF pc = "awaiting" THEN "pending"
                 ELSE IF completion.threw THEN "rejected" ELSE "fulfilled",
     value |-> completion.value, error |-> completion.error, logged |-> logged]

\* The catch blocks: console.error(original), throw new Error(generic).
CatchRethrowOriginal(completion, generic) ==
    [logged |-> completion.error, completion |-> completion]

Catch(completion, generic) ==
    IF completion.threw
    THEN [logged |-> completion.error, completion |-> Throw(generic)]
    ELSE [logged |-> "", completion |-> completion]

generateImageCatch(completion) == Catch(completion, GenerateFailed)
editImageCatch(completion) == Catch(completion, EditFailed)
getPosturePromptsCatch(completion) == Catch(completion, PromptFetchFailed)

\* The function up to its await: getAiClient, then the remote call is issued.
Begin(op, args, key, caught) ==
    IF getAiClient(key).threw
    THEN Call(op, args, "done", 0, Undefined, caught.completion, caught.logged)
    ELSE Call(op, args, "awaiting", 1, Undefined, Return(Undefined), "")

generateImageBegin(promptText, key) ==
    Begin("generateImage", [prompt |-> promptText], key, generateImageCatch(getAiClient(key)))

editImageBegin(base64Image, mimeType, promptText, key) ==
    Begin("editImage", [base64Image |-> base64Image, mimeType |-> mimeType, prompt |-> promptText],
          key, editImageCatch(getAiClient(key)))

getPosturePromptsBegin(key) ==
    Begin("getPosturePrompts", [none |-> TRUE], key, getPosturePromptsCatch(getAiClient(key)))

\* The rest of a try block once the await has settled.
generateImageUnguarded(settlement) ==
    IF settlement.settled = "rejected" THEN Throw(settlement.error)
    ELSE LET images == settlement.value.generatedImages IN
         IF images.tag = "array" /\ Len(images.items) > 0 /\ images.items[1].image.tag # "undefined"
         THEN Return(DataUrl(Str(<<"image/jpeg">>), images.items[1].image.imageBytes))
         ELSE Return(DataUrl(Str(<<"image/jpeg">>), Undefined))

generateImageTry(settlement) ==
    IF settlement.settled = "rejected" THEN Throw(settlement.error)
    ELSE LET images == settlement.value.generatedImages IN
         IF images.tag = "array" /\ Len(images.items) > 0
         THEN IF images.items[1].image.tag = "undefined"
              THEN Throw("TypeError")
              ELSE Return(DataUrl(Str(<<"image/jpeg">>), images.items[1].image.imageBytes))
         ELSE Throw(NoImageGenerated)

RECURSIVE ScanPartsKeepLast(_)
ScanPartsKeepLast(parts) ==
    IF parts = <<>> THEN Throw(NoEditedImage)
    ELSE LET last == parts[Len(parts)] IN
         IF last.inlineData.tag # "undefined"
         THEN Return(DataUrl(last.inlineData.mimeType, last.inlineData.data))
         ELSE ScanPartsKeepLast(SubSeq(parts, 1, Len(parts) - 1))

RECURSIVE ScanPartsNoThrow(_)
ScanPartsNoThrow(parts) ==
    IF parts = <<>> THEN Return(Undefined)
    ELSE IF Head(parts).inlineData.tag # "undefined"
         THEN Return(DataUrl(Head(parts).inlineData.mimeType, Head(parts).inlineData.data))
    ELSE ScanPartsNoThrow(Tail(parts))

\* for (const part of parts) if (part.inlineData) return ...; throw ...
RECURSIVE ScanParts(_)
ScanParts(parts) ==
    IF parts = <<>> THEN Throw(NoEditedImage)
    ELSE IF Head(parts).inlineData.tag # "undefined"
         THEN Return(DataUrl(Head(parts).inlineData.mimeType, Head(parts).inlineData.data))
    ELSE ScanParts(Tail(parts))

editImageTry(settlement) ==
    IF settlement.settled = "rejected" THEN Throw(settlement.error)
    ELSE IF settlement.value.candidates.tag = "undefined" THEN Throw("TypeError")
    ELSE ScanParts(settlement.value.candidates.items[1].content.parts)

getPosturePromptsTry(settlement) ==
    IF settlement.settled = "rejected" THEN Throw(settlement.error)
    ELSE IF settlement.value.text.tag = "undefined" THEN Throw("TypeError")
    ELSE JSONParse(Trim(settlement.value.text.s))

\* The function from its await on: the try block's rest, then the catch.
ResumeWithRetry(call, settlement, caught) ==
    IF caught.completion.threw /\ call.remoteCalls = 1
    THEN Call(call.op, call.args, "awaiting", call.remoteCalls + 1, Undefined, Return(Undefined), "")
    ELSE Call(call.op, call.args, "done", call.remoteCalls, settlement, caught.completion, caught.logged)

Resume(call, settlement, caught) ==
    Call(call.op, call.args, "done", call.remoteCalls, settlement, caught.completion, caught.logged)

generateImageResume(call, settlement) ==
    Resume(call, settlement, generateImageCatch(generateImageTry(settlement)))
editImageResume(call, settlement) ==
    Resume(call, settlement, editImageCatch(editImageTry(settlement)))
getPosturePromptsResume(call, settlement) ==
    Resume(call, settlement, getPosturePromptsCatch(getPosturePromptsTry(settlement)))

Awaiting(op) == {c \in BagToSet(calls) : c.op = op /\ c.pc = "awaiting"}
One(c) == SetToBag({c})
Done == {c \in BagToSet(calls) : c.pc = "done"}

\* --------------------------------------------- the service called directly
\* Two callers, each awaiting at most one invocation of its own.
Callers == {"first", "second"}
Prompts == {Str(<<"a cat">>)}

CallGenerateImage ==
    /\ BagCardinality(calls) < Cardinality(Callers)
    /\ \E p \in Prompts : calls' = calls (+) One(generateImageBegin(p, apiKey))
    /\ UNCHANGED <<apiKey, appVars>>

CallEditImage ==
    /\ BagCardinality(calls) < Cardinality(Callers)
    /\ \E m \in {Png, Jpeg}, p \in Prompts :
          calls' = calls (+) One(editImageBegin(Str(<<"b0">>), m, p, apiKey))
    /\ UNCHANGED <<apiKey, appVars>>

CallGetPosturePrompts ==
    /\ BagCardinality(calls) < Cardinality(Callers)
    /\ calls' = calls (+) One(getPosturePromptsBegin(apiKey))
    /\ UNCHANGED <<apiKey, appVars>>

Settle(call, resumed) ==
    /\ calls' = (calls (-) One(call)) (+) One(resumed)
    /\ UNCHANGED <<apiKey, appVars>>

SettleGenerateImage ==
    \E c \in Awaiting("generateImage"), r \in GenerateImagesSettlements :
        Settle(c, generateImageResume(c, r))

SettleEditImage ==
    \E c \in Awaiting("editImage"), r \in EditSettlements :
        Settle(c, editImageResume(c, r))

SettleGetPosturePrompts ==
    \E c \in Awaiting("getPosturePrompts"), r \in PromptsSettlements :
        Settle(c, getPosturePromptsResume(c, r))

\* ------------------------------------------------------- service claims
IsOp(c, op) == c.op = op
FulfilledResponse(c) == c.response # Undefined /\ c.response.settled = "fulfilled"

\* C1: with API_KEY not configured, every invocation of generateImage, editImage
\* and getPosturePrompts has failed and has issued no remote call.
C1_NoRemoteCallWithoutCredential ==
    apiKey = "" =>
        \A c \in BagToSet(calls) : c.pc = "done" /\ c.outcome = "rejected" /\ c.remoteCalls = 0

C1_Witness ==
    /\ apiKey = ""
    /\ \E c1, c2 \in Done : c1.op # c2.op /\ c1.outcome = "rejected" /\ c2.outcome = "rejected"

\* The failure kinds of the specification, told apart by the Error's message.
ErrorKind(message) ==
    IF message = ApiKeyNotSet THEN "ConfigurationError"
    ELSE IF message = GenerateFailed THEN "GenerationFailed"
    ELSE IF message = EditFailed THEN "EditFailed"
    ELSE IF message = PromptFetchFailed THEN "PromptFetchFailed"
    ELSE "other"

OwnFailureKind(op) ==
    IF op = "generateImage" THEN "GenerationFailed"
    ELSE IF op = "editImage" THEN "EditFailed"
    ELSE "PromptFetchFailed"

\* C2: with API_KEY not configured, the error the caller gets is a
\* ConfigurationError, distinguishable from the operation's own failure kind.
C2_ConfigurationErrorObserved ==
    apiKey = "" =>
        \A c \in Done :
            /\ ErrorKind(c.error) = "ConfigurationError"
            /\ ErrorKind(c.error) # OwnFailureKind(c.op)

\* The response text is an array of objects that each have title and prompt.
NonBlank(text) == SelectSeq(text, LAMBDA tok : tok # " ")
ConformsToSchema(text) ==
    LET t == NonBlank(text) IN
    /\ Len(t) >= 2
    /\ t[1] = "[" /\ t[Len(t)] = "]"
    /\ Len(t) = 2 \/ Len(t) % 2 = 1
    /\ \A i \in 2..(Len(t) - 1) : IF i % 2 = 0 THEN t[i] = TokFull ELSE t[i] = ","

NonEmptyString(v) == v.tag = "string" /\ v.s # <<>>

CompletePrompts(v) ==
    /\ v.tag = "array"
    /\ \A i \in 1..Len(v.items) :
          /\ v.items[i].tag = "object"
          /\ NonEmptyString(v.items[i].title)
          /\ NonEmptyString(v.items[i].prompt)

\* C3: getPosturePrompts fails with PromptFetchFailed whenever the response text
\* is malformed structured output (not an array, or an element without title or
\* prompt), and every element it returns has a non-empty title and prompt.
C3_MalformedOutputRejected ==
    \A c \in Done :
        IsOp(c, "getPosturePrompts") /\ FulfilledResponse(c) /\ c.response.value.text.tag = "string" =>
            /\ ~ConformsToSchema(c.response.value.text.s) =>
                   c.outcome = "rejected" /\ c.error = PromptFetchFailed
            /\ c.outcome = "fulfilled" => CompletePrompts(c.value)

ZeroArtifacts(c) ==
    /\ IsOp(c, "generateImage") /\ FulfilledResponse(c)
    /\ \/ c.response.value.generatedImages.tag = "undefined"
       \/ c.response.value.generatedImages.items = <<>>

\* C4: when the remote call returns no generatedImages (missing or empty),
\* generateImage fails with its failure message and yields no success value.
C4_ZeroArtifactsFail ==
    \A c \in Done : ZeroArtifacts(c) =>
        c.outcome = "rejected" /\ c.error = GenerateFailed /\ c.value = Undefined

C4_Witness ==
    /\ \E c \in Done : ZeroArtifacts(c) /\ c.response.value.generatedImages.tag = "undefined"
    /\ \E c \in Done : ZeroArtifacts(c) /\ c.response.value.generatedImages.tag = "array"

HasParts(c) ==
    IsOp(c, "editImage") /\ FulfilledResponse(c) /\ c.response.value.candidates.tag = "array"
PartsOf(c) == c.response.value.candidates.items[1].content.parts
IsInline(part) == part.inlineData.tag # "undefined"
InlineIndexes(parts) == {i \in 1..Len(parts) : IsInline(parts[i])}
FirstInline(parts) ==
    parts[CHOOSE i \in InlineIndexes(parts) : \A j \in InlineIndexes(parts) : i <= j].inlineData

\* C5: when some response part has inline image data, editImage succeeds with
\* the data string of the first such part in list order: its own MIME type and
\* its own data, whatever the other parts and the input MIME type are.
C5_FirstInlinePartReturned ==
    \A c \in Done : HasParts(c) /\ InlineIndexes(PartsOf(c)) # {} =>
        /\ c.outcome = "fulfilled"
        /\ c.value = Str(<<"data:">> \o FirstInline(PartsOf(c)).mimeType.s
                         \o <<";base64", ",">> \o FirstInline(PartsOf(c)).data.s)

C5_Witness ==
    /\ \E c \in Done :
          /\ HasParts(c) /\ Len(PartsOf(c)) = 2
          /\ ~IsInline(PartsOf(c)[1]) /\ IsInline(PartsOf(c)[2])
          /\ PartsOf(c)[2].inlineData.mimeType # c.args.mimeType
          /\ c.outcome = "fulfilled"
    /\ \E c \in Done :
          /\ HasParts(c) /\ Len(PartsOf(c)) = 2
          /\ IsInline(PartsOf(c)[1]) /\ IsInline(PartsOf(c)[2])
          /\ PartsOf(c)[1] # PartsOf(c)[2]
          /\ c.outcome = "fulfilled"

\* C6: when no response part has inline image data (the list may be empty),
\* editImage fails with its failure message and yields no success value.
C6_NoInlinePartFails ==
    \A c \in Done : HasParts(c) /\ InlineIndexes(PartsOf(c)) = {} =>
        c.outcome = "rejected" /\ c.error = EditFailed /\ c.value = Undefined

C6_Witness ==
    /\ \E c \in Done : HasParts(c) /\ PartsOf(c) = <<>> /\ c.outcome = "rejected"
    /\ \E c \in Done : HasParts(c) /\ PartsOf(c) # <<>> /\ InlineIndexes(PartsOf(c)) = {}

\* C7: two failed invocations of the same operation deliver the same error to
\* the caller whatever was caught, and that error carries no remote detail.
C7_GenericErrorOnly ==
    \A c1, c2 \in Done :
        c1.outcome = "rejected" /\ c2.outcome = "rejected" /\ c1.op = c2.op =>
            /\ c1.error = c2.error
            /\ c1.error \notin ErrorDetails \cup {c1.logged}

C7_Witness ==
    \E c1, c2 \in Done :
        /\ c1.op = c2.op /\ c1.outcome = "rejected" /\ c2.outcome = "rejected"
        /\ c1.logged \in ErrorDetails /\ c2.logged \notin ErrorDetails
        /\ c1.error = c2.error

\* C8: an invocation issues at most one remote call, is either awaiting it or
\* done, ends once the call settles as exactly one of fulfilled (a value, no
\* error) and rejected (an error, no value), and two invocations of the same
\* operation given the same arguments and the same remote answer end alike.
C8_AttemptOnceTwoOutcomes ==
    /\ \A c \in BagToSet(calls) :
          /\ c.remoteCalls <= 1
          /\ c.pc \in {"awaiting", "done"}
          /\ c.pc = "awaiting" => c.outcome = "pending" /\ c.remoteCalls = 1
          /\ c.response # Undefined => c.pc = "done"
          /\ c.pc = "done" =>
                \/ c.outcome = "fulfilled" /\ c.error = ""
                \/ c.outcome = "rejected" /\ c.error # "" /\ c.value = Undefined
    /\ \A c1, c2 \in Done :
          c1.op = c2.op /\ c1.args = c2.args /\ c1.response = c2.response => c1 = c2

C8_Witness ==
    \E c \in Done :
        /\ c.outcome = "rejected" /\ c.remoteCalls = 1 /\ c.response # Undefined
        /\ CopiesIn(c, calls) = 2

\* ------------------------------------------------------------------ App
Tabs == {"GENERATE", "EDIT", "PROMPTS"}
UnknownError == "An unknown error occurred."
InvalidFile == "Please select a valid image file."

Files == {
    [name |-> "a.png", type |-> <<"image/", "png">>, base64 |-> "b1"],
    [name |-> "b.jpg", type |-> <<"image/", "jpeg">>, base64 |-> "b2"],
    [name |-> "c.txt", type |-> <<"text/", "plain">>, base64 |-> "b3"]}

\* What can be typed into a textarea.
PromptInputs == {<<>>, <<" ">>, <<"a cat">>}

\* !text.trim()
Blank(text) == Trim(text.s) = <<>>

StartsWith(s, prefix) == Len(s) >= 1 /\ s[1] = prefix

RECURSIVE Split(_, _)
Split(s, sep) ==
    IF \A i \in 1..Len(s) : s[i] # sep THEN <<s>>
    ELSE LET k == CHOOSE i \in 1..Len(s) : s[i] = sep /\ \A j \in 1..(i - 1) : s[j] # sep IN
         <<SubSeq(s, 1, k - 1)>> \o Split(SubSeq(s, k + 1, Len(s)), sep)

\* pieces[index], indexed from 0
At(pieces, index) == IF index + 1 <= Len(pieces) THEN Str(pieces[index + 1]) ELSE Undefined

\* FileReader.readAsDataURL: reader.result once the read has ended well.
ReadAsDataURL(file) == Str(<<"data:">> \o file.type \o <<";base64", ",", file.base64>>)

\* What `await generateImage(...)`, `await editImage(...)` and
\* `await getPosturePrompts()` can complete with, over every remote answer.
generateImageCompletions ==
    {generateImageCatch(generateImageTry(r)).completion : r \in GenerateImagesSettlements}
editImageCompletions ==
    {editImageCatch(editImageTry(r)).completion : r \in EditSettlements}
getPosturePromptsCompletions ==
    {getPosturePromptsCatch(getPosturePromptsTry(r)).completion : r \in PromptsSettlements}

\* e.message || 'An unknown error occurred.'
MessageOf(e) == IF e.error = "" THEN Str(<<UnknownError>>) ELSE Str(<<e.error>>)

InFlight(op) == BagCardinality([c \in Awaiting(op) |-> CopiesIn(c, calls)])

\* Rendering throws, and React unmounts the App: editPrompt.trim() on the
\* editor tab, posturePrompts.map on the prompts tab.
RenderThrows ==
    \/ activeTab = "EDIT" /\ editPrompt.tag # "string"
    \/ /\ activeTab = "PROMPTS" /\ ~isPromptsLoading /\ Falsy(promptsError)
       /\ posturePrompts.tag # "array"

Alive == mounted /\ ~RenderThrows

\* useEffect(fetchPrompts, []).  A call that fails before its await is caught
\* in the same turn of the event loop, before any other event is handled.
AppMount ==
    /\ ~mounted
    /\ mounted' = TRUE
    /\ LET c == getPosturePromptsBegin(apiKey) IN
       IF c.pc = "done"
       THEN /\ promptsError' = MessageOf(c)
            /\ isPromptsLoading' = FALSE
            /\ UNCHANGED calls
       ELSE /\ promptsError' = Null
            /\ isPromptsLoading' = TRUE
            /\ calls' = calls (+) One(c)
    /\ UNCHANGED <<apiKey, activeTab, generatorVars, editorVars, posturePrompts>>

fetchPromptsResume ==
    /\ ~RenderThrows
    /\ \E c \in Awaiting("getPosturePrompts"), d \in getPosturePromptsCompletions :
          /\ calls' = calls (-) One(c)
          /\ IF ~d.threw
             THEN posturePrompts' = d.value /\ UNCHANGED promptsError
             ELSE promptsError' = MessageOf(d) /\ UNCHANGED posturePrompts
          /\ isPromptsLoading' = FALSE
    /\ UNCHANGED <<apiKey, mounted, activeTab, generatorVars, editorVars>>

setActiveTab ==
    /\ Alive
    /\ \E t \in Tabs : activeTab' = t
    /\ UNCHANGED <<apiKey, calls, mounted, generatorVars, editorVars, promptsVars>>

setPrompt ==
    /\ Alive /\ activeTab = "GENERATE" /\ ~isLoading
    /\ \E text \in PromptInputs : prompt' = Str(text)
    /\ UNCHANGED <<apiKey, calls, mounted, activeTab, imageUrl, isLoading, error, editorVars, promptsVars>>

\* The button is enabled and the handler does not return early.
CanGenerateWhileLoading == ~Blank(prompt)

CanGenerate == ~(Blank(prompt) \/ isLoading)

\* handleGenerateImage without setError(null).
handleGenerateImageKeepError ==
    /\ Alive /\ activeTab = "GENERATE" /\ CanGenerate
    /\ LET c == generateImageBegin(prompt, apiKey) IN
       IF c.pc = "done"
       THEN /\ isLoading' = FALSE /\ error' = MessageOf(c) /\ imageUrl' = Null
            /\ UNCHANGED calls
       ELSE /\ isLoading' = TRUE /\ imageUrl' = Null
            /\ calls' = calls (+) One(c)
            /\ UNCHANGED error
    /\ UNCHANGED <<apiKey, mounted, activeTab, prompt, editorVars, promptsVars>>

handleGenerateImage ==
    /\ Alive /\ activeTab = "GENERATE" /\ CanGenerate
    /\ LET c == generateImageBegin(prompt, apiKey) IN
       IF c.pc = "done"
       THEN /\ isLoading' = FALSE /\ error' = MessageOf(c) /\ imageUrl' = Null
            /\ UNCHANGED calls
       ELSE /\ isLoading' = TRUE /\ error' = Null /\ imageUrl' = Null
            /\ calls' = calls (+) One(c)
    /\ UNCHANGED <<apiKey, mounted, activeTab, prompt, editorVars, promptsVars>>

handleGenerateImageResume ==
    /\ ~RenderThrows
    /\ \E c \in Awaiting("generateImage"), d \in generateImageCompletions :
          /\ calls' = calls (-) One(c)
          /\ IF ~d.threw
             THEN imageUrl' = d.value /\ UNCHANGED error
             ELSE error' = MessageOf(d) /\ UNCHANGED imageUrl
          /\ isLoading' = FALSE
    /\ UNCHANGED <<apiKey, mounted, activeTab, prompt, editorVars, promptsVars>>

handleFileChange ==
    /\ Alive /\ activeTab = "EDIT" /\ ~isEditing
    /\ \E file \in Files \cup {Undefined} :
          IF file # Undefined /\ StartsWith(file.type, "image/")
          THEN /\ BagCardinality(reads) < MaxPendingReads
               /\ uploadedImageType' = Str(file.type)
               /\ reads' = reads (+) One(file)
               /\ UNCHANGED editError
          ELSE /\ editError' = Str(<<InvalidFile>>)
               /\ UNCHANGED <<uploadedImageType, reads>>
    /\ UNCHANGED <<apiKey, calls, mounted, activeTab, generatorVars, promptsVars,
                   uploadedImage, editedImageUrl, editPrompt, isEditing>>

\* reader.onloadend; reader.result is null when the read failed.
readerOnLoadEnd ==
    /\ ~RenderThrows
    /\ \E file \in BagToSet(reads) : \E result \in {ReadAsDataURL(file), Null} :
          /\ reads' = reads (-) One(file)
          /\ uploadedImage' = result
    /\ editedImageUrl' = Null
    /\ editError' = Null
    /\ UNCHANGED <<apiKey, calls, mounted, activeTab, generatorVars, promptsVars,
                   uploadedImageType, editPrompt, isEditing>>

setEditPrompt ==
    /\ Alive /\ activeTab = "EDIT" /\ ~isEditing /\ ~Falsy(uploadedImage)
    /\ \E text \in PromptInputs : editPrompt' = Str(text)
    /\ UNCHANGED <<apiKey, calls, mounted, activeTab, generatorVars, promptsVars,
                   uploadedImage, uploadedImageType, editedImageUrl, isEditing, editError, reads>>

CanEdit ==
    ~(Blank(editPrompt) \/ Falsy(uploadedImage) \/ isEditing \/ Falsy(uploadedImageType))

handleEditImage ==
    /\ Alive /\ activeTab = "EDIT" /\ CanEdit
    /\ LET base64Data == At(Split(uploadedImage.s, ","), 1)
           c == editImageBegin(base64Data, uploadedImageType, editPrompt, apiKey) IN
       IF c.pc = "done"
       THEN /\ isEditing' = FALSE /\ editError' = MessageOf(c) /\ editedImageUrl' = Null
            /\ UNCHANGED calls
       ELSE /\ isEditing' = TRUE /\ editError' = Null /\ editedImageUrl' = Null
            /\ calls' = calls (+) One(c)
    /\ UNCHANGED <<apiKey, mounted, activeTab, generatorVars, promptsVars,
                   uploadedImage, uploadedImageType, editPrompt, reads>>

handleEditImageResume ==
    /\ ~RenderThrows
    /\ \E c \in Awaiting("editImage"), d \in editImageCompletions :
          /\ calls' = calls (-) One(c)
          /\ IF ~d.threw
             THEN editedImageUrl' = d.value /\ UNCHANGED editError
             ELSE editError' = MessageOf(d) /\ UNCHANGED editedImageUrl
          /\ isEditing' = FALSE
    /\ UNCHANGED <<apiKey, mounted, activeTab, generatorVars, promptsVars,
                   uploadedImage, uploadedImageType, editPrompt, reads>>

\* "Use Prompt" on a card of the prompts tab: onUsePrompt(p.prompt).
handleUsePrompt ==
    /\ Alive /\ activeTab = "PROMPTS" /\ ~isPromptsLoading /\ Falsy(promptsError)
    /\ \E i \in 1..Len(posturePrompts.items) :
          LET p == posturePrompts.items[i] IN
          editPrompt' = IF p.tag = "object" THEN p.prompt ELSE Undefined
    /\ activeTab' = "EDIT"
    /\ UNCHANGED <<apiKey, calls, mounted, generatorVars, promptsVars,
                   uploadedImage, uploadedImageType, editedImageUrl, isEditing, editError, reads>>

AppInit ==
    /\ mounted = FALSE
    /\ activeTab = "GENERATE"
    /\ prompt = Str(<<>>) /\ imageUrl = Null /\ isLoading = FALSE /\ error = Null
    /\ uploadedImage = Null /\ uploadedImageType = Null /\ editedImageUrl = Null
    /\ editPrompt = Str(<<>>) /\ isEditing = FALSE /\ editError = Null
    /\ posturePrompts = Arr(<<>>) /\ isPromptsLoading = TRUE /\ promptsError = Null
    /\ reads = EmptyBag

Init ==
    /\ apiKey \in ApiKeys
    /\ calls = EmptyBag
    /\ AppInit

\* The service functions called directly, by two callers.
Next ==
    \/ CallGenerateImage
    \/ CallEditImage
    \/ CallGetPosturePrompts
    \/ SettleGenerateImage
    \/ SettleEditImage
    \/ SettleGetPosturePrompts

Spec == Init /\ [][Next]_vars

\* The App, calling the service functions from its handlers.
NextApp ==
    \/ AppMount
    \/ fetchPromptsResume
    \/ setActiveTab
    \/ setPrompt
    \/ handleGenerateImage
    \/ handleGenerateImageResume
    \/ handleFileChange
    \/ readerOnLoadEnd
    \/ setEditPrompt
    \/ handleEditImage
    \/ handleEditImageResume
    \/ handleUsePrompt

SpecApp == Init /\ [][NextApp]_vars

\* ----------------------------------------------------------- App claims
EditRequests == {c \in BagToSet(calls) : c.op = "editImage"}

\* C9: the bytes and the MIME type of every editImage request issued by
\* handleEditImage are those of one and the same uploaded file.
C9_BytesAndTypeOfOneFile ==
    \A c \in EditRequests :
        \E file \in Files :
            /\ c.args.base64Image = Str(<<file.base64>>)
            /\ c.args.mimeType = Str(file.type)

\* C10: at most one generateImage request and at most one editImage request
\* of the App are in flight at any time.
C10_OneRequestInFlight ==
    InFlight("generateImage") <= 1 /\ InFlight("editImage") <= 1

C10_Witness ==
    /\ InFlight("generateImage") = 1 /\ isLoading /\ ~Blank(prompt)
    /\ InFlight("editImage") = 1 /\ isEditing /\ ~Blank(editPrompt) /\ ~Falsy(uploadedImage)

Present(v) == v.tag \notin {"null", "undefined"}
ExactlyOne(result, failure) == Present(result) # Present(failure)

\* C11: isLoading (isEditing) is true exactly while a generateImage (editImage)
\* request of the App is outstanding: it becomes true in the step that starts
\* the request and false in the step that resolves it, on success and on
\* failure alike, and after that step exactly one of imageUrl and error
\* (editedImageUrl and editError) is set.
C11_LoadingFlagsTrackRequests ==
    /\ [](/\ isLoading <=> InFlight("generateImage") = 1
          /\ isEditing <=> InFlight("editImage") = 1)
    /\ [][/\ handleGenerateImage /\ calls' # calls => ~isLoading /\ isLoading'
          /\ handleGenerateImageResume \/ (handleGenerateImage /\ calls' = calls) =>
                ~isLoading' /\ ExactlyOne(imageUrl', error')
          /\ handleEditImage /\ calls' # calls => ~isEditing /\ isEditing'
          /\ handleEditImageResume \/ (handleEditImage /\ calls' = calls) =>
                ~isEditing' /\ ExactlyOne(editedImageUrl', editError')]_vars

C11_Witness ==
    /\ apiKey # ""
    /\ ~isLoading /\ Present(imageUrl) /\ ~Present(error)
    /\ ~isEditing /\ Present(editError) /\ ~Present(editedImageUrl)
    /\ editError = Str(<<EditFailed>>)

====
